---------------------------- MODULE Spec2Model ----------------------------
(* A model of scripts/generate-xri.py: the generator of the PixInsight     *)
(* repository index docs/updates.xri from the releases of a GitHub         *)
(* repository.  A Python str is a sequence of one-character strings (a    *)
(* literal of the source is kept as one element), the Python value None is *)
(* the one-element sequence None.                                          *)
EXTENDS Integers, Sequences, FiniteSets, TLC

VARIABLES source,        \* what the release source answers (environment)
          file,          \* content of docs/updates.xri: NoFile or its lines
          pc,            \* position of the process in generate_xri
          releases,      \* local: the list returned by get_releases()
          ri,            \* position of `for release in releases`
          ai,            \* position of `for asset in release['assets']`
          version,       \* local of the release loop
          release_date,  \* local of the release loop
          platform,      \* the package children of the <platform> element
          package_count, \* local counter
          dl,            \* downloads attempted by this run, in order
          writes,        \* number of writes of the output file by this run
          exit,          \* exit status of the process, Running until it ends
          old,           \* content of the output file when this run started
          prev           \* what the previous run did, NoRun for the first

vars == <<source, file, pc, releases, ri, ai, version, release_date,
          platform, package_count, dl, writes, exit, old, prev>>

-----------------------------------------------------------------------------
(* Bounds of the model. *)
MaxReleases == 2      \* releases in one answer of the release source
MaxAssets == 2        \* assets in one answer, over all its releases
MaxTagLen == 3        \* characters of a tag name, specification SpecTags
MaxBodyLen == 302     \* characters of a release body, specification SpecNotes

-----------------------------------------------------------------------------
(* Python values and str methods. *)
None == <<"None">>
NoFile == <<"NoFile">>
Running == -1

\* bool(x) of a str-or-None value
Truthy(s) == s # None /\ s # <<>>

RECURSIVE ConcatRange(_, _, _)
ConcatRange(seqs, lo, hi) ==
    IF lo > hi THEN <<>>
    ELSE IF lo = hi THEN seqs[lo]
    ELSE LET mid == (lo + hi) \div 2
         IN  ConcatRange(seqs, lo, mid) \o ConcatRange(seqs, mid + 1, hi)

\* ''.join(seqs), by halves
Concat(seqs) == ConcatRange(seqs, 1, Len(seqs))

\* s[i:].startswith(oldstr)
MatchAt(s, i, oldstr) ==
    /\ i + Len(oldstr) - 1 <= Len(s)
    /\ \A k \in 1..Len(oldstr) : s[i + k - 1] = oldstr[k]

\* s.replace(oldstr, new) for the arguments of the source ('\r\n', '\n', 'Z'
\* and '\r'): no proper prefix of them is a suffix, so that the occurrences
\* of oldstr never overlap and every one of them is replaced
Replace(s, oldstr, new) ==
    LET Covered(i) == \E j \in (i - Len(oldstr) + 1)..(i - 1) :
                          j >= 1 /\ MatchAt(s, j, oldstr)
        Piece(i) == IF MatchAt(s, i, oldstr) THEN new
                    ELSE IF Covered(i) THEN <<>>
                    ELSE <<s[i]>>
    IN  Concat([i \in 1..Len(s) |-> Piece(i)])

RECURSIVE LStripFrom(_, _, _)
LStripFrom(s, i, chars) ==
    IF i <= Len(s) /\ s[i] \in chars THEN LStripFrom(s, i + 1, chars)
    ELSE SubSeq(s, i, Len(s))

\* s.lstrip(chars): removes the longest prefix made of characters of chars
LStrip(s, chars) == LStripFrom(s, 1, chars)

\* s.endswith(suffix)
EndsWith(s, suffix) ==
    /\ Len(s) >= Len(suffix)
    /\ SubSeq(s, Len(s) - Len(suffix) + 1, Len(s)) = suffix

\* s[:n]
Prefix(s, n) == SubSeq(s, 1, IF n < Len(s) THEN n ELSE Len(s))

-----------------------------------------------------------------------------
(* datetime.fromisoformat(...).strftime('%Y%m%d'), extended ISO format:    *)
(* YYYY-MM-DD, optionally followed by a separator, HH:MM:SS and +HH:MM.    *)
Digits == <<"0", "1", "2", "3", "4", "5", "6", "7", "8", "9">>
IsDigit(c) == \E d \in 1..10 : Digits[d] = c
DigitVal(c) == (CHOOSE d \in 1..10 : Digits[d] = c) - 1
AllDigits(s, from, to) == \A i \in from..to : IsDigit(s[i])
TwoDigits(s, i) == 10 * DigitVal(s[i]) + DigitVal(s[i + 1])
YearOf(s) == 1000 * DigitVal(s[1]) + 100 * DigitVal(s[2]) + TwoDigits(s, 3)

IsLeap(y) == y % 4 = 0 /\ (y % 100 # 0 \/ y % 400 = 0)
DaysInMonth(y, m) ==
    IF m = 2 THEN (IF IsLeap(y) THEN 29 ELSE 28)
    ELSE IF m \in {4, 6, 9, 11} THEN 30 ELSE 31

ValidDate(s) ==
    /\ Len(s) >= 10
    /\ AllDigits(s, 1, 4) /\ s[5] = "-"
    /\ AllDigits(s, 6, 7) /\ s[8] = "-"
    /\ AllDigits(s, 9, 10)
    /\ YearOf(s) >= 1
    /\ TwoDigits(s, 6) \in 1..12
    /\ TwoDigits(s, 9) \in 1..DaysInMonth(YearOf(s), TwoDigits(s, 6))

\* HH:MM:SS at s[i..i+7]
ValidClock(s, i) ==
    /\ AllDigits(s, i, i + 1) /\ s[i + 2] = ":"
    /\ AllDigits(s, i + 3, i + 4) /\ s[i + 5] = ":"
    /\ AllDigits(s, i + 6, i + 7)
    /\ TwoDigits(s, i) <= 23
    /\ TwoDigits(s, i + 3) <= 59
    /\ TwoDigits(s, i + 6) <= 59

\* +HH:MM or -HH:MM at s[i..i+5]
ValidOffset(s, i) ==
    /\ s[i] \in {"+", "-"}
    /\ AllDigits(s, i + 1, i + 2) /\ s[i + 3] = ":"
    /\ AllDigits(s, i + 4, i + 5)
    /\ TwoDigits(s, i + 1) <= 23
    /\ TwoDigits(s, i + 4) <= 59

IsIsoFormat(s) ==
    /\ ValidDate(s)
    /\ \/ Len(s) = 10
       \/ Len(s) = 19 /\ ValidClock(s, 12)
       \/ Len(s) = 25 /\ ValidClock(s, 12) /\ ValidOffset(s, 20)

\* release['published_at'].replace('Z', '+00:00'), the argument of the parser
IsoArgument(published_at) ==
    Replace(published_at, <<"Z">>, <<"+", "0", "0", ":", "0", "0">>)

\* TRUE iff lines 87-89 return instead of raising (None has no replace)
DateParses(published_at) ==
    published_at # None /\ IsIsoFormat(IsoArgument(published_at))

\* the YYYYMMDD string of lines 87-89
FormatDate(published_at) ==
    LET s == IsoArgument(published_at)
    IN  SubSeq(s, 1, 4) \o SubSeq(s, 6, 7) \o SubSeq(s, 9, 10)

-----------------------------------------------------------------------------
(* The fields derived for one package, lines 83-142. *)
REPO_NAME == <<"R">>
NotesLimit == 300
NotesKept == 297
Ellipsis == <<".", ".", ".">>

\* f' {text} '
Pad(text) == <<" ">> \o text \o <<" ">>

\* line 84
Version(tag_name) == LStrip(tag_name, {"v"})

\* line 135
Collapse(body) ==
    Replace(Replace(body, <<"\r", "\n">>, <<" ">>), <<"\n">>, <<" ">>)

MutTruncateAtLimit(text) ==
    IF Len(text) >= NotesLimit THEN Prefix(text, NotesKept) \o Ellipsis
    ELSE text

\* lines 136-137
Truncate(text) ==
    IF Len(text) > NotesLimit THEN Prefix(text, NotesKept) \o Ellipsis
    ELSE text

\* release.get('body'): None when the key is absent or null
Body(release) == release.body

MutNotesUnlessNone(body) ==
    IF body # None THEN <<Pad(Truncate(Collapse(body)))>> ELSE <<>>

\* lines 132-138: the release-notes paragraphs of an entry, none or one
NotesParagraphs(body) ==
    IF Truthy(body) THEN <<Pad(Truncate(Collapse(body)))>> ELSE <<>>

\* hashlib.sha1 of the bytes served at a URL, as an abstract digest: a
\* non-empty string determined by the bytes
Sha1Hex(bytes) == <<"#">> \o bytes

\* the bytes a successful download of the URL yields
BytesAt(url) == url

MutDigestOfNothing(download_url, ok) ==
    Sha1Hex(IF ok THEN BytesAt(download_url) ELSE <<>>)

\* lines 35-51: the digest, or None when anything in the download raised
calculate_sha1_from_url(download_url, ok) ==
    IF ok THEN Sha1Hex(BytesAt(download_url)) ELSE None

\* lines 108-116: the attributes of the package element, in insertion order
PackageAttrs(filename, date, sha1_hash) ==
    <<  <<"fileName", filename>>,
        <<"type", <<"script">>>>,
        <<"releaseDate", date>>  >>
    \o (IF Truthy(sha1_hash) THEN << <<"sha1", sha1_hash>> >> ELSE <<>>)

\* lines 118-142: the package element of one admitted asset
Package(release, asset, date, sha1_hash) ==
    [attrs |-> PackageAttrs(asset.name, date, sha1_hash),
     title |-> Pad(REPO_NAME),
     paras |-> << <<" Install or update ">> \o REPO_NAME
                    \o <<" in PixInsight. ">> >>
               \o NotesParagraphs(Body(release))
               \o <<Pad(asset.browser_download_url)>>]

HasAttr(package, name) ==
    \E i \in 1..Len(package.attrs) : package.attrs[i][1] = name

Attr(package, name) ==
    package.attrs[CHOOSE i \in 1..Len(package.attrs) :
                      package.attrs[i][1] = name][2]

-----------------------------------------------------------------------------
(* Serialisation, lines 150-167.  The text of the document is a sequence   *)
(* of pieces: markup, characters and the line separator NL.                *)
NL == "\n"
Whitespace == {" ", "\t", "\r", "\n", "\f"}
\* characters the XML parser of line 158 rejects
InvalidXmlChars == {"\f"}

EscapeChar(c) ==
    IF c = "&" THEN "&amp;"
    ELSE IF c = "<" THEN "&lt;"
    ELSE IF c = ">" THEN "&gt;"
    ELSE c

\* character data as line 159 writes it back: the parser has turned every
\* line end into a line feed, the writer escapes markup characters
XmlText(text) ==
    LET n == Replace(Replace(text, <<"\r", "\n">>, <<NL>>), <<"\r">>, <<NL>>)
    IN  [i \in 1..Len(n) |-> EscapeChar(n[i])]

\* an element and the indentation text that lines 151 and 159 put after it
Gap == <<NL, NL, NL>>
Leaf(tag, text) == <<"<", tag, ">">> \o XmlText(text) \o <<"</", tag, ">">> \o Gap
Open(tag) == <<"<", tag, ">">> \o Gap
Close(tag) == <<"</", tag, ">">> \o Gap

XmlAttrs(attrs) ==
    Concat([i \in 1..Len(attrs) |->
                <<" ", attrs[i][1], "=\"">> \o XmlText(attrs[i][2]) \o <<"\"">>])

XmlPackage(package) ==
    <<"<", "package">> \o XmlAttrs(package.attrs) \o <<">">> \o Gap
    \o Leaf("title", package.title)
    \o Open("description")
    \o Concat([i \in 1..Len(package.paras) |-> Leaf("p", package.paras[i])])
    \o Close("description")
    \o Close("package")

PlatformAttrs == " os=\"all\" arch=\"noarch\" version=\"1.8.0:1.8.99\""

\* lines 57-71 and 155-159: the pretty-printed text of the whole tree (the
\* dash of line 65 is written as a hyphen)
ToPrettyXml(packages) ==
    <<"<?xml version=\"1.0\" encoding=\"UTF-8\"?>", NL>>
    \o <<"<", "xri", " version=\"1.0\"", ">">> \o Gap
    \o <<"<", "script", "/>">> \o Gap
    \o Open("description")
    \o Leaf("p", Pad(REPO_NAME \o <<" - Automated Narrowband Astrophotography",
                                   " Workflow Based on PixInsight Processing",
                                   " Scripts.">>))
    \o Close("description")
    \o (IF packages = <<>>
        THEN <<"<", "platform", PlatformAttrs, "/>">> \o Gap
        ELSE <<"<", "platform", PlatformAttrs, ">">> \o Gap
             \o Concat([i \in 1..Len(packages) |-> XmlPackage(packages[i])])
             \o Close("platform"))
    \o <<"</", "xri", ">", NL>>

\* line 158: the parser accepts the text that line 155 produced
XmlParses(packages) ==
    \A i \in 1..Len(packages) :
        /\ \A c \in 1..Len(packages[i].title) :
               packages[i].title[c] \notin InvalidXmlChars
        /\ \A p \in 1..Len(packages[i].paras) :
               \A c \in 1..Len(packages[i].paras[p]) :
                   packages[i].paras[p][c] \notin InvalidXmlChars
        /\ \A a \in 1..Len(packages[i].attrs) :
               \A c \in 1..Len(packages[i].attrs[a][2]) :
                   packages[i].attrs[a][2][c] \notin InvalidXmlChars

RECURSIVE SplitRange(_, _, _)
SplitRange(text, lo, hi) ==
    IF lo > hi THEN << <<>> >>
    ELSE IF lo = hi THEN (IF text[lo] = NL THEN << <<>>, <<>> >> ELSE << <<text[lo]>> >>)
    ELSE LET mid == (lo + hi) \div 2
             left == SplitRange(text, lo, mid)
             right == SplitRange(text, mid + 1, hi)
         IN  SubSeq(left, 1, Len(left) - 1)
             \o << left[Len(left)] \o right[1] >>
             \o Tail(right)

\* text.split('\n'), by halves: the last line of the first half continues
\* in the first line of the second half
Split(text) == SplitRange(text, 1, Len(text))

\* line.strip() is empty
IsBlank(line) == \A i \in 1..Len(line) : line[i] \in Whitespace

\* lines 162-163: the lines of the text that are not blank
NonBlankLines(text) == SelectSeq(Split(text), LAMBDA line : ~IsBlank(line))

\* lines 150-167: what a run writes to docs/updates.xri
Document(packages) == NonBlankLines(ToPrettyXml(packages))

-----------------------------------------------------------------------------
(* What the release source can answer. *)
TsValid == <<"2", "0", "2", "4", "-", "0", "3", "-", "0", "5", "T",
             "1", "0", ":", "2", "0", ":", "3", "0", "Z">>
TsMonth13 == <<"2", "0", "2", "4", "-", "1", "3", "-", "0", "5", "T",
               "1", "0", ":", "2", "0", ":", "3", "0", "Z">>

\* the names an asset can carry, in the order a release lists them
Catalogue == << <<"a", ".", "Z", "I", "P">>,
                <<"a", ".", "z", "i", "p">>,
                <<"b", ".", "z", "i", "p">> >>
UpperZip == <<Catalogue[1]>>
AZip == <<Catalogue[2]>>
BZip == <<Catalogue[3]>>
Sig == << <<"a", ".", "z", "i", "p", ".", "s", "i", "g">> >>

\* the names of Catalogue at the positions I, in order
Names(I) ==
    LET f[i \in 0..Len(Catalogue)] ==
            IF i = 0 THEN <<>>
            ELSE IF i \in I THEN Append(f[i - 1], Catalogue[i]) ELSE f[i - 1]
    IN  f[Len(Catalogue)]

\* the asset lists of at most n assets
AssetLists(n) ==
    {Names(I) : I \in {J \in SUBSET (1..Len(Catalogue)) : Cardinality(J) <= n}}

\* an asset record of the releases API
Asset(tag_name, name) ==
    [name |-> name, browser_download_url |-> <<"/">> \o tag_name \o <<"/">> \o name]

\* a release record of the releases API
Release(tag_name, draft, prerelease, published_at, body, names) ==
    [tag_name |-> tag_name, draft |-> draft, prerelease |-> prerelease,
     published_at |-> published_at, body |-> body,
     assets |-> [i \in 1..Len(names) |-> Asset(tag_name, names[i])]]

RECURSIVE SeqsOf(_, _)
\* the sequences of exactly n elements of S
SeqsOf(S, n) ==
    IF n = 0 THEN {<<>>}
    ELSE {Append(q, x) : q \in SeqsOf(S, n - 1), x \in S}

SeqsUpTo(S, n) == UNION {SeqsOf(S, k) : k \in 0..n}

\* a published release
Published(tag_name, body, names) ==
    Release(tag_name, FALSE, FALSE, TsValid, body, names)

\* a draft: it has no publish timestamp yet
Draft == Release(<<"v", "4">>, TRUE, FALSE, None, None, AZip)
\* a prerelease
Prerelease == Release(<<"v", "5">>, FALSE, TRUE, TsValid, <<"b">>, BZip)
\* published releases with a timestamp that does not parse
BadDate(names) == Release(<<"v", "3">>, FALSE, FALSE, TsMonth13, None, names)
\* published releases whose body holds a form feed
FormFeed(names) == Published(<<"v", "2">>, <<"a", "\f">>, names)

\* the releases that specification Spec draws its answers from
ReleasePool ==
    {Published(<<"v", "1">>, <<"a", "\r", "\n", "<", "b">>, names) :
         names \in AssetLists(MaxAssets)}
    \cup {Draft, Prerelease, BadDate(<<>>), FormFeed(Sig), FormFeed(AZip)}

Sources == SeqsUpTo(ReleasePool, MaxReleases)

\* releases that follow the release under study in the other specifications
Tails == {<<>>, <<Draft>>, <<Prerelease>>, <<BadDate(<<>>)>>, <<FormFeed(AZip)>>}

\* the answers of specification SpecTags: every tag name over a small alphabet
TagSources ==
    {<<Published(tag_name, None, Sig \o AZip)>> \o tail :
         tag_name \in SeqsUpTo({"v", "1", "."}, MaxTagLen), tail \in Tails}

\* the release bodies of specification SpecNotes: the character at every
\* position tells the position, but for one line break brk put at pos
Fill(i) == Digits[(i % 10) + 1]
BodyOf(len, brk, pos) ==
    [i \in 1..len |-> IF pos <= i /\ i < pos + Len(brk) THEN brk[i - pos + 1]
                      ELSE Fill(i)]
BodyLengths == (0..2) \cup ((NotesKept - 1)..MaxBodyLen)
Breaks == {<<>>, <<"\n">>, <<"\r", "\n">>, <<"\r">>}
BreakPositions(len, brk) ==
    {1} \cup {q \in {NotesKept, NotesLimit} : q + Len(brk) - 1 <= len}
Bodies ==
    {None} \cup
    UNION {{BodyOf(len, brk, pos) : pos \in BreakPositions(len, brk)} :
               len \in BodyLengths, brk \in Breaks}

NotesSources ==
    {<<Published(<<"v", "1">>, body, Sig \o AZip)>> \o tail :
         body \in Bodies, tail \in Tails}

\* the answers of specification SpecRerun
RerunPool ==
    {Published(<<"v", "1">>, <<"a">>, UpperZip \o AZip \o BZip),
     Draft, Prerelease, BadDate(<<>>), FormFeed(AZip)}
RerunSources == SeqsUpTo(RerunPool, MaxReleases)

\* a document written by an earlier version of the repository
OldDocument == <<<<"<", "xri", "/>">>>>

-----------------------------------------------------------------------------
(* The process: generate_xri under the handler of lines 173-180. *)
NoRun == [file |-> NoFile, dl |-> <<>>, exit |-> Running]

\* the state of a process that has just been started
Start ==
    /\ pc = "start"
    /\ releases = <<>>
    /\ ri = 0 /\ ai = 0
    /\ version = None /\ release_date = None
    /\ platform = <<>>
    /\ package_count = 0
    /\ dl = <<>>
    /\ writes = 0
    /\ exit = Running
    /\ old = file

\* a first process, over one of the answers and one of the files
InitWith(answers, files) ==
    /\ source \in answers
    /\ file \in files
    /\ prev = NoRun
    /\ Start

\* the repository holds an index already, as it does from the second run of
\* the workflow on
Init == InitWith(Sources, {OldDocument})

MutRaiseAfterOpen ==
    /\ pc' = "aborted"
    /\ exit' = 1
    /\ file' = <<>>

\* what an uncaught exception does, lines 176-180: the process ends with
\* status 1, the output file is as it was
Raise ==
    /\ pc' = "aborted"
    /\ exit' = 1
    /\ file' = file

\* lines 74, 19-33: the release list arrives
GetReleases ==
    /\ pc = "start"
    /\ releases' = source
    /\ ri' = 1
    /\ pc' = "release"
    /\ UNCHANGED <<source, file, ai, version, release_date, platform,
                   package_count, dl, writes, exit, old, prev>>

\* lines 28-29: the request or raise_for_status raises
GetReleasesFails ==
    /\ pc = "start"
    /\ Raise
    /\ UNCHANGED <<source, releases, ri, ai, version, release_date,
                   platform, package_count, dl, writes, old, prev>>

AtRelease == pc = "release" /\ ri <= Len(releases)

MutSkipOnlyDrafts(release) == release.draft

\* line 79
Skipped(release) == release.draft \/ release.prerelease

\* lines 79-81
SkipRelease ==
    /\ AtRelease
    /\ Skipped(releases[ri])
    /\ ri' = ri + 1
    /\ UNCHANGED <<source, file, pc, releases, ai, version, release_date,
                   platform, package_count, dl, writes, exit, old, prev>>

\* lines 83-91: the fields of the release, then its asset loop starts
BeginRelease ==
    /\ AtRelease
    /\ ~Skipped(releases[ri])
    /\ DateParses(releases[ri].published_at)
    /\ version' = Version(releases[ri].tag_name)
    /\ release_date' = FormatDate(releases[ri].published_at)
    /\ ai' = 1
    /\ pc' = "asset"
    /\ UNCHANGED <<source, file, releases, ri, platform, package_count,
                   dl, writes, exit, old, prev>>

\* lines 87-89 raise
TimestampError ==
    /\ AtRelease
    /\ ~Skipped(releases[ri])
    /\ ~DateParses(releases[ri].published_at)
    /\ version' = Version(releases[ri].tag_name)
    /\ Raise
    /\ UNCHANGED <<source, releases, ri, ai, release_date, platform,
                   package_count, dl, writes, old, prev>>

AtAsset == pc = "asset" /\ ai <= Len(releases[ri].assets)

MutContainsZip(filename) ==
    \E i \in 1..Len(filename) : MatchAt(filename, i, <<".", "z", "i", "p">>)

\* line 98
Admitted(filename) == EndsWith(filename, <<".", "z", "i", "p">>)

\* lines 98-100
SkipAsset ==
    /\ AtAsset
    /\ ~Admitted(releases[ri].assets[ai].name)
    /\ ai' = ai + 1
    /\ UNCHANGED <<source, file, pc, releases, ri, version, release_date,
                   platform, package_count, dl, writes, exit, old, prev>>

MutPrependChild(children, element) == <<element>> \o children

\* line 118: ET.SubElement(platform, 'package', ...)
SubElement(children, element) == Append(children, element)

\* lines 102-144: one download, whatever its outcome, and one package
AddPackage ==
    /\ AtAsset
    /\ Admitted(releases[ri].assets[ai].name)
    /\ \E ok \in BOOLEAN :
         LET asset == releases[ri].assets[ai]
             sha1_hash == calculate_sha1_from_url(asset.browser_download_url, ok)
         IN  /\ dl' = Append(dl, [ri |-> ri, ai |-> ai, ok |-> ok])
             /\ platform' = SubElement(platform,
                    Package(releases[ri], asset, release_date, sha1_hash))
    /\ package_count' = package_count + 1
    /\ ai' = ai + 1
    /\ UNCHANGED <<source, file, pc, releases, ri, version, release_date,
                   writes, exit, old, prev>>

\* line 94: the assets of the release are exhausted
EndRelease ==
    /\ pc = "asset"
    /\ ai > Len(releases[ri].assets)
    /\ ri' = ri + 1
    /\ pc' = "release"
    /\ UNCHANGED <<source, file, releases, ai, version, release_date,
                   platform, package_count, dl, writes, exit, old, prev>>

AtEnd == pc = "release" /\ ri > Len(releases)

MutAppended(content, lines) ==
    IF content = NoFile THEN lines ELSE content \o lines

\* lines 166-167: the content of a file opened with mode 'w' once the
\* lines are written, whatever its content was
Written(content, lines) == lines

\* lines 146-171: the releases are exhausted, the document is written
Save ==
    /\ AtEnd
    /\ XmlParses(platform)
    /\ file' = Written(file, Document(platform))
    /\ writes' = writes + 1
    /\ pc' = "done"
    /\ exit' = 0
    /\ UNCHANGED <<source, releases, ri, ai, version, release_date,
                   platform, package_count, dl, old, prev>>

\* line 158 raises: the text of line 155 is not well-formed XML
SerializeError ==
    /\ AtEnd
    /\ ~XmlParses(platform)
    /\ Raise
    /\ UNCHANGED <<source, releases, ri, ai, version, release_date,
                   platform, package_count, dl, writes, old, prev>>

Next ==
    \/ GetReleases
    \/ GetReleasesFails
    \/ SkipRelease
    \/ BeginRelease
    \/ TimestampError
    \/ SkipAsset
    \/ AddPackage
    \/ EndRelease
    \/ Save
    \/ SerializeError

Spec == Init /\ [][Next]_vars

\* a release whose tag name ranges over the tag names
InitTags == InitWith(TagSources, {OldDocument})
SpecTags == InitTags /\ [][Next]_vars

\* a release whose body ranges over the bodies
InitNotes == InitWith(NotesSources, {OldDocument})
SpecNotes == InitNotes /\ [][Next]_vars

\* the workflow starts the script again: a new process, the same answer of
\* the release source, the output file as the last run left it
Rerun ==
    /\ pc \in {"done", "aborted"}
    /\ prev' = [file |-> file, dl |-> dl, exit |-> exit]
    /\ pc' = "start"
    /\ releases' = <<>>
    /\ ri' = 0 /\ ai' = 0
    /\ version' = None /\ release_date' = None
    /\ platform' = <<>>
    /\ package_count' = 0
    /\ dl' = <<>>
    /\ writes' = 0
    /\ exit' = Running
    /\ old' = file
    /\ UNCHANGED <<source, file>>

NextRerun == Next \/ Rerun

\* the first run finds an index or none
InitRerun == InitWith(RerunSources, {NoFile, OldDocument})
SpecRerun == InitRerun /\ [][NextRerun]_vars

-----------------------------------------------------------------------------
(* Vocabulary of the properties. *)
\* the release is neither a draft nor a prerelease
Publishable(release) == ~release.draft /\ ~release.prerelease

\* the filename ends in the four characters .zip
EndsInDotZip(filename) ==
    /\ Len(filename) >= 4
    /\ filename[Len(filename) - 3] = "."
    /\ filename[Len(filename) - 2] = "z"
    /\ filename[Len(filename) - 1] = "i"
    /\ filename[Len(filename)] = "p"

\* the asset that the k-th download of this run fetched
Downloaded(k) == source[dl[k].ri].assets[dl[k].ai]

\* the assets that must have an entry, in the order of the answer
ExpectedAssets ==
    Concat([i \in 1..Len(source) |->
               IF Publishable(source[i])
               THEN SelectSeq(source[i].assets, LAMBDA a : EndsInDotZip(a.name))
               ELSE <<>>])

\* the lines of a written document that open a package entry
IsPackageLine(line) == Len(line) >= 2 /\ line[1] = "<" /\ line[2] = "package"
PackageLines(doc) == SelectSeq(doc, IsPackageLine)

\* the value of the fileName attribute of a package line:
\* < package _ fileName =" c1 ... cn " ...
FileNameOf(line) ==
    LET close == CHOOSE j \in 6..Len(line) :
                     line[j] = "\"" /\ \A h \in 6..(j - 1) : line[h] # "\""
    IN  SubSeq(line, 6, close - 1)

\* the line of a document that holds the link paragraph of an asset
LinkLine(asset) ==
    <<"<", "p", ">", " ">> \o asset.browser_download_url \o <<" ", "</", "p", ">">>

HasWritten == file # NoFile /\ file # old

\* the text of the release-notes paragraph of an entry, without the space
\* that the generator puts on both sides of every text
NotesOf(package) ==
    SubSeq(package.paras[2], 2, Len(package.paras[2]) - 1)

-----------------------------------------------------------------------------
\* C1: no download is made for, and no entry of the tree or of the written
\* document comes from, an asset of a release whose draft flag or prerelease
\* flag is true.
C1_SkippedReleasesContributeNothing ==
    /\ Len(platform) = Len(dl)
    /\ \A k \in 1..Len(dl) :
           ~source[dl[k].ri].draft /\ ~source[dl[k].ri].prerelease
    /\ \A i \in 1..Len(source) :
           (source[i].draft \/ source[i].prerelease) =>
               \A a \in 1..Len(source[i].assets) :
                   LET link == Pad(source[i].assets[a].browser_download_url)
                       line == LinkLine(source[i].assets[a])
                   IN  /\ \A k \in 1..Len(platform) :
                              platform[k].paras[Len(platform[k].paras)] # link
                       /\ HasWritten => \A j \in 1..Len(file) : file[j] # line

\* a finished run that emitted an entry although its answer holds a draft or
\* a prerelease that carries a .zip asset
C1_Witness ==
    /\ pc = "done"
    /\ Len(platform) > 0
    /\ \E i \in 1..Len(source) :
           /\ source[i].draft \/ source[i].prerelease
           /\ \E a \in 1..Len(source[i].assets) :
                  EndsInDotZip(source[i].assets[a].name)

\* C2: no download is attempted and no entry is emitted for an asset whose
\* filename does not end in the case-sensitive suffix .zip.
C2_OnlyDotZipAdmitted ==
    /\ \A k \in 1..Len(dl) : EndsInDotZip(Downloaded(k).name)
    /\ \A k \in 1..Len(platform) :
           EndsInDotZip(Attr(platform[k], "fileName"))
    /\ HasWritten =>
           LET entries == PackageLines(file)
           IN  \A j \in 1..Len(entries) : EndsInDotZip(FileNameOf(entries[j]))

\* a finished run over publishable releases that carry a.ZIP and a.zip.sig
C2_Witness ==
    /\ pc = "done"
    /\ \E i \in 1..Len(source) :
           /\ Publishable(source[i])
           /\ \E a \in 1..Len(source[i].assets) :
                  source[i].assets[a].name = UpperZip[1]
    /\ \E i \in 1..Len(source) :
           /\ Publishable(source[i])
           /\ \E a \in 1..Len(source[i].assets) :
                  source[i].assets[a].name = Sig[1]

\* C3: when a run completes, the entries of the document are exactly the
\* .zip assets of the publishable releases, one entry each with the asset's
\* filename, in release order and asset order.
C3_EntriesAreTheAdmittedAssets ==
    pc = "done" =>
        LET expected == ExpectedAssets
            entries == PackageLines(file)
        IN  /\ Len(platform) = Len(expected)
            /\ package_count = Len(expected)
            /\ \A k \in 1..Len(platform) :
                   /\ Attr(platform[k], "fileName") = expected[k].name
                   /\ platform[k].paras[Len(platform[k].paras)]
                          = Pad(expected[k].browser_download_url)
            /\ Len(entries) = Len(expected)
            /\ \A k \in 1..Len(entries) :
                   FileNameOf(entries[k]) = expected[k].name

\* a finished run over two releases that emitted three entries
C3_Witness ==
    /\ pc = "done"
    /\ Len(source) >= 2
    /\ Len(platform) >= 3

\* C4: every admitted asset is downloaded exactly once; whatever the outcome
\* its entry is emitted and the run goes on with the next asset; the entry
\* carries a sha1 attribute iff the download succeeded.
C4_DownloadFailureIsSoft ==
    /\ [](/\ Len(platform) = Len(dl)
          /\ \A k \in 1..Len(dl) :
                 /\ HasAttr(platform[k], "sha1") <=> dl[k].ok
                 /\ Attr(platform[k], "fileName") = Downloaded(k).name
                 /\ \A j \in 1..(k - 1) :
                        dl[j].ri # dl[k].ri \/ dl[j].ai # dl[k].ai
          /\ pc = "done" =>
                 /\ \A i \in 1..Len(source) : \A a \in 1..Len(source[i].assets) :
                        (Publishable(source[i])
                            /\ EndsInDotZip(source[i].assets[a].name))
                        => \E k \in 1..Len(dl) : dl[k].ri = i /\ dl[k].ai = a
                 /\ LET entries == PackageLines(file)
                    IN  \A k \in 1..Len(dl) :
                            (\E h \in 1..Len(entries[k]) : entries[k][h] = "sha1")
                            <=> dl[k].ok)
    /\ [][Len(dl') # Len(dl) =>
              /\ Len(dl') = Len(dl) + 1
              /\ Len(platform') = Len(platform) + 1
              /\ pc' = "asset" /\ ri' = ri /\ ai' = ai + 1
              /\ exit' = Running]_vars

\* a finished run in which a download failed and a later one succeeded
C4_Witness ==
    /\ pc = "done"
    /\ \E j, k \in 1..Len(dl) : j < k /\ ~dl[j].ok /\ dl[k].ok

\* C5: the run ends with a non-zero status exactly when the fetch of the
\* release list failed or the timestamp of a publishable release does not
\* parse, and with status 0 otherwise.
C5_AbortsOnlyOnFetchOrTimestamp ==
    pc \in {"done", "aborted"} =>
        (exit # 0 <=>
            \/ ri = 0
            \/ \E i \in 1..Len(source) :
                   /\ Publishable(source[i])
                   /\ ~DateParses(source[i].published_at))

\* C6: the version is the tag name without one leading v, if it has one.
C6_VersionStripsOneV ==
    pc = "asset" =>
        LET tag_name == source[ri].tag_name
        IN  version = IF tag_name # <<>> /\ tag_name[1] = "v"
                      THEN Tail(tag_name) ELSE tag_name

C9_SameInputsSameDocument ==
    (prev.exit = 0 /\ pc = "done" /\ dl = prev.dl) => file = prev.file

\* a second successful run with the outcomes of the first, one of them a
\* failure, over a file that the first run rewrote
C9_Witness ==
    /\ prev.exit = 0
    /\ pc = "done"
    /\ dl = prev.dl
    /\ Len(dl) >= 2
    /\ \E k \in 1..Len(dl) : ~dl[k].ok
    /\ file = prev.file

\* C10: a run writes the output file at most once, at its end: until the
\* run is done, and for good if it aborts, the file is as the run found it;
\* a run that is done has replaced it by the whole new document.
C10_FileWrittenOnceAtTheEnd ==
    /\ [](/\ writes <= 1
          /\ pc # "done" => (file = old /\ writes = 0)
          /\ pc = "done" =>
                 /\ writes = 1
                 /\ ri > Len(source)
                 /\ file = Document(platform)
                 /\ file[1] = <<"<?xml version=\"1.0\" encoding=\"UTF-8\"?>">>
                 /\ file[Len(file)] = <<"</", "xri", ">">>)
    /\ [][file' # file => (pc = "release" /\ ri > Len(releases) /\ pc' = "done")]_vars

\* a run that aborted after it had built an entry, over an existing file
C10_Witness ==
    /\ pc = "aborted"
    /\ Len(platform) >= 1
    /\ old = OldDocument
    /\ file = OldDocument

=============================================================================
